---- MODULE Spec2Model ----
(***************************************************************************)
(* generate_spritesheet.py: collect the images of a directory, pack them   *)
(* with a shelf packer, composite the sheet and write a JSON atlas.        *)
(*                                                                         *)
(* File names are sequences of ASCII code points, so that lower(),         *)
(* endswith(), sort() and os.path.splitext() are computed on characters.   *)
(***************************************************************************)
EXTENDS Integers, Sequences, FiniteSets, TLC

(* ------------------------------------------------------------------ *)
(* Bounds of the generated inputs                                      *)
(* ------------------------------------------------------------------ *)
\* decoded sprites have width and height in 1..MaxDim
MaxDim == 3
\* sprites handed to pack_images on its own have width and height in 1..MaxPackDim
MaxPackDim == 2
\* --padding is drawn from 0..MaxPad
MaxPad == 1
\* --width is drawn from 1..MaxReqWidth
MaxReqWidth == 6
\* powers of two 2^0 .. 2^MaxExp are enough to cover every sheet dimension
MaxExp == 12

(* ------------------------------------------------------------------ *)
(* File names (ASCII code points)                                      *)
(* ------------------------------------------------------------------ *)
\* "a.jpg"
a_jpg == <<97, 46, 106, 112, 103>>
\* "a.PNG"
a_PNG == <<97, 46, 80, 78, 71>>
\* "c.txt"
c_txt == <<99, 46, 116, 120, 116>>
\* "s1.png"
s1_png == <<115, 49, 46, 112, 110, 103>>
\* "s2.jpeg"
s2_jpeg == <<115, 50, 46, 106, 112, 101, 103>>
\* "s3.webp"
s3_webp == <<115, 51, 46, 119, 101, 98, 112>>

\* the names a generated directory may hold
Names == {a_jpg, a_PNG, c_txt}
\* the names that are image files; the others are never images
ImageFiles == {a_jpg, a_PNG}

\* what a directory entry holds: an undecodable file, or an image of w x h
Undecodable == [ok |-> FALSE, w |-> 0, h |-> 0]
Img(w, h) == [ok |-> TRUE, w |-> w, h |-> h]
Content == {Undecodable} \cup {Img(w, h) : w \in 1..MaxDim, h \in 1..MaxDim}

\* the directory of the packing scenario: 64x64, 128x64, 64x128
ScenarioDir == (s1_png :> Img(64, 64)) @@ (s2_jpeg :> Img(128, 64)) @@ (s3_webp :> Img(64, 128))
\* the directory of the oversized-image scenario: one image 3000 wide
WideDir == (s1_png :> Img(3000, 1))

(* ------------------------------------------------------------------ *)
(* Helpers                                                             *)
(* ------------------------------------------------------------------ *)
Max2(a, b) == IF a > b THEN a ELSE b

\* max(img.size[0] for _, img in images), 0 for no image
RECURSIVE max_img_width(_)
max_img_width(images) ==
    IF images = <<>> THEN 0
    ELSE Max2(Head(images).w, max_img_width(Tail(images)))

\* str.lower() on ASCII
lower(s) == [k \in 1..Len(s) |-> IF s[k] \in 65..90 THEN s[k] + 32 ELSE s[k]]

\* str.endswith(suffix)
endswith(s, suf) ==
    /\ Len(s) >= Len(suf)
    /\ SubSeq(s, Len(s) - Len(suf) + 1, Len(s)) = suf

\* ('.png', '.jpg', '.jpeg', '.webp')
exts == { <<46, 112, 110, 103>>, <<46, 106, 112, 103>>,
          <<46, 106, 112, 101, 103>>, <<46, 119, 101, 98, 112>> }

\* f.lower().endswith(exts)
has_image_ext(f) == \E e \in exts : endswith(lower(f), e)

\* Python's str < str: lexicographic on code points
StrLess(a, b) ==
    \E k \in 1..(Len(a) + 1) :
        /\ \A j \in 1..(k - 1) : j <= Len(b) /\ a[j] = b[j]
        /\ \/ k = Len(a) + 1 /\ Len(b) >= k
           \/ k <= Len(a) /\ k <= Len(b) /\ a[k] < b[k]

RECURSIVE insert_sorted(_, _)
insert_sorted(f, s) ==
    IF s = <<>> THEN <<f>>
    ELSE IF StrLess(Head(s), f) THEN <<Head(s)>> \o insert_sorted(f, Tail(s))
    ELSE <<f>> \o s

RECURSIVE isort(_)
isort(files) ==
    IF files = <<>> THEN <<>>
    ELSE insert_sorted(Head(files), isort(Tail(files)))

\* a listing that is returned as it came, unsorted
sort_files_unsorted(files) == files

\* files.sort()
sort_files(files) == isort(files)

\* os.path.splitext(fname)[0]: cut at the last dot, unless only dots precede it
splitext_root(f) ==
    LET dots == {k \in 1..Len(f) : f[k] = 46}
        dotIndex == IF dots = {} THEN 0 ELSE CHOOSE k \in dots : \A j \in dots : j <= k
    IN  IF dotIndex > 0 /\ \E k \in 1..(dotIndex - 1) : f[k] # 46
        THEN SubSeq(f, 1, dotIndex - 1)
        ELSE f

\* next_power_of_two with the loop test p <= n, which doubles a power of two
RECURSIVE npot_loop_le(_, _)
npot_loop_le(p, n) == IF p <= n THEN npot_loop_le(2 * p, n) ELSE p
next_power_of_two_doubling(n) == npot_loop_le(1, n)

\* p = 1; while p < n: p <<= 1
RECURSIVE npot_loop(_, _)
npot_loop(p, n) == IF p < n THEN npot_loop(2 * p, n) ELSE p
next_power_of_two(n) == npot_loop(1, n)

(* ------------------------------------------------------------------ *)
(* collect_images                                                      *)
(* ------------------------------------------------------------------ *)
\* the orders in which os.listdir may return the entries of directory d
Listings(d) ==
    LET n == Cardinality(DOMAIN d)
    IN  {l \in [1..n -> DOMAIN d] : \A i, j \in 1..n : i # j => l[i] # l[j]}

\* the loop of collect_images: open each file, skip the ones that fail
RECURSIVE open_all(_, _)
open_all(files, d) ==
    IF files = <<>> THEN <<>>
    ELSE IF d[Head(files)].ok
         THEN <<[fname |-> Head(files), w |-> d[Head(files)].w, h |-> d[Head(files)].h]>>
              \o open_all(Tail(files), d)
         ELSE open_all(Tail(files), d)

collect_images(listing, d) ==
    open_all(sort_files(SelectSeq(listing, has_image_ext)), d)

(* ------------------------------------------------------------------ *)
(* pack_images                                                         *)
(* ------------------------------------------------------------------ *)
\* a wrap test that also wraps a sprite that fits exactly
NeedsWrap_ge(x, w, padding, max_width) == x + w + padding >= max_width

\* if x + w + padding > max_width
NeedsWrap(x, w, padding, max_width) == x + w + padding > max_width

\* a new row that forgets the height of the row above
next_row_y_flat(y, row_height, padding) == y + padding

\* y += row_height + padding
next_row_y(y, row_height, padding) == y + row_height + padding

\* a cursor that forgets the padding between sprites
advance_x_nopad(x, w, padding) == x + w

\* x += w + padding
advance_x(x, w, padding) == x + w + padding

\* a row height that follows the last sprite instead of the tallest
new_row_height_last(h, row_height) == h

\* if h > row_height: row_height = h
new_row_height(h, row_height) == IF h > row_height THEN h ELSE row_height

\* positions[fname] = (x, y)
dict_put(positions, fname, xy) ==
    [f \in (DOMAIN positions) \cup {fname} |-> IF f = fname THEN xy ELSE positions[f]]

\* the state of the packer before the loop
pack_init(padding) ==
    [x |-> padding, y |-> padding, row_height |-> 0, positions |-> <<>>, max_row_w |-> 0]

\* one iteration of the loop of pack_images
pack_step(st, img, max_width, padding) ==
    LET wrap == NeedsWrap(st.x, img.w, padding, max_width)
        y1   == IF wrap THEN next_row_y(st.y, st.row_height, padding) ELSE st.y
        x1   == IF wrap THEN padding ELSE st.x
        rh1  == IF wrap THEN 0 ELSE st.row_height
        x2   == advance_x(x1, img.w, padding)
    IN  [x          |-> x2,
         y          |-> y1,
         row_height |-> new_row_height(img.h, rh1),
         positions  |-> dict_put(st.positions, img.fname, <<x1, y1>>),
         max_row_w  |-> IF x2 > st.max_row_w THEN x2 ELSE st.max_row_w]

\* total_height = y + row_height + padding
total_height(y, row_height, padding) == y + row_height + padding

\* total_width = max(max_row_w, max(widths, default=0) + 2*padding)
total_width(max_row_w, images, padding) ==
    Max2(max_row_w, max_img_width(images) + 2 * padding)

RECURSIVE pack_loop(_, _, _, _)
pack_loop(st, rest, max_width, padding) ==
    IF rest = <<>> THEN st
    ELSE pack_loop(pack_step(st, Head(rest), max_width, padding), Tail(rest), max_width, padding)

\* pack_images as one function: (positions, total_width, total_height)
pack_images(images, max_width, padding) ==
    LET st == pack_loop(pack_init(padding), images, max_width, padding)
    IN  [positions |-> st.positions,
         w |-> total_width(st.max_row_w, images, padding),
         h |-> total_height(st.y, st.row_height, padding)]

(* ------------------------------------------------------------------ *)
(* create_sheet, build_json, main                                      *)
(* ------------------------------------------------------------------ *)
\* the canvas create_sheet allocates, pastes into and saves; it returns its size
create_sheet(images, positions, sheet_w, sheet_h, pot) ==
    LET fw == IF pot THEN next_power_of_two(sheet_w) ELSE sheet_w
        fh == IF pot THEN next_power_of_two(sheet_h) ELSE sheet_h
    IN  [written |-> TRUE, w |-> fw, h |-> fh,
         sprites |-> { [fname |-> images[k].fname,
                        x |-> positions[images[k].fname][1],
                        y |-> positions[images[k].fname][2],
                        w |-> images[k].w, h |-> images[k].h] : k \in 1..Len(images) }]

\* frames[name] = rec on an insertion-ordered dict
frames_put(frames, name, rec) ==
    IF \E k \in 1..Len(frames) : frames[k].name = name
    THEN [k \in 1..Len(frames) |-> IF frames[k].name = name THEN rec ELSE frames[k]]
    ELSE Append(frames, rec)

RECURSIVE build_frames(_, _, _)
build_frames(frames, rest, positions) ==
    IF rest = <<>> THEN frames
    ELSE LET img  == Head(rest)
             name == splitext_root(img.fname)
             rec  == [name |-> name,
                      frame |-> [x |-> positions[img.fname][1], y |-> positions[img.fname][2],
                                 w |-> img.w, h |-> img.h],
                      rotated |-> FALSE, trimmed |-> FALSE,
                      sourceSize |-> [w |-> img.w, h |-> img.h]]
         IN  build_frames(frames_put(frames, name, rec), Tail(rest), positions)

build_json(images, positions, sheet_w, sheet_h) ==
    [written |-> TRUE,
     frames |-> build_frames(<<>>, images, positions),
     meta |-> [app |-> "generate_spritesheet.py", size |-> [w |-> sheet_w, h |-> sheet_h],
               scale |-> "1"]]

\* a test for "no images" that never fires
no_images_never(images) == FALSE

\* if not images
no_images(images) == images = <<>>

\* a maximum width that is left as requested
effective_max_width_asis(width, images, padding) == width

\* max_width = max(args.width, max_img_w + 2*args.padding)
effective_max_width(width, images, padding) ==
    Max2(width, max_img_width(images) + 2 * padding)

\* an atlas that records the packer's size
main_atlas_raw(images, positions, sheet_w, sheet_h, final_w, final_h) ==
    build_json(images, positions, sheet_w, sheet_h)

\* atlas = build_json(images, positions, final_w, final_h, ...)
main_atlas(images, positions, sheet_w, sheet_h, final_w, final_h) ==
    build_json(images, positions, final_w, final_h)

(* ------------------------------------------------------------------ *)
(* State                                                               *)
(* ------------------------------------------------------------------ *)
VARIABLES
    dir_exists,   \* os.path.isdir(args.input)
    dir,          \* the entries of the input directory: file name -> content
    width,        \* args.width
    padding,      \* args.padding
    pot,          \* args.pot
    pc,           \* where main is
    images,       \* the collected (fname, img) pairs
    max_width,    \* the maximum width handed to pack_images
    idx,          \* the next element of images the loop of pack_images takes
    x, y, row_height, positions, max_row_w,   \* the locals of pack_images
    sheet_w, sheet_h,     \* what pack_images returned
    final_w, final_h,     \* what create_sheet returned
    out_image,    \* the file at args.output
    out_json,     \* the file at args.json
    exit_code     \* the exit status, -1 while main runs

args == <<dir_exists, dir, width, padding, pot>>
packer == <<idx, x, y, row_height, positions, max_row_w>>
outputs == <<sheet_w, sheet_h, final_w, final_h, out_image, out_json>>
vars == <<args, pc, images, max_width, packer, outputs, exit_code>>

\* a file main has not written
NoFile == [written |-> FALSE]

\* the directories generated within the bounds; a file that is no image never decodes
GeneratedDirs ==
    {d \in UNION {[S -> Content] : S \in SUBSET Names} :
        \A f \in DOMAIN d : f \notin ImageFiles => d[f] = Undecodable}

\* everything main and pack_images have not assigned yet
Fresh ==
    /\ images = <<>>
    /\ max_width = 0
    /\ idx = 0
    /\ x = 0 /\ y = 0 /\ row_height = 0 /\ positions = <<>> /\ max_row_w = 0
    /\ sheet_w = 0 /\ sheet_h = 0 /\ final_w = 0 /\ final_h = 0
    /\ out_image = NoFile /\ out_json = NoFile
    /\ exit_code = -1

\* the generated runs
InitGenerated ==
    /\ dir_exists \in BOOLEAN
    /\ dir \in (IF dir_exists THEN GeneratedDirs ELSE {<<>>})
    /\ width \in 1..MaxReqWidth
    /\ padding \in 0..MaxPad
    /\ pot \in BOOLEAN

\* the two scenarios with their own numbers
InitScenario ==
    /\ dir_exists = TRUE
    /\ \/ dir = ScenarioDir /\ width = 256
       \/ dir = WideDir /\ width = 512
    /\ padding = 2
    /\ pot \in BOOLEAN

Init ==
    /\ InitGenerated \/ InitScenario
    /\ pc = "start"
    /\ Fresh

(* ------------------------------------------------------------------ *)
(* main, step by step                                                  *)
(* ------------------------------------------------------------------ *)
\* if not os.path.isdir(args.input): sys.exit(1)
DirMissing ==
    /\ pc = "start"
    /\ ~dir_exists
    /\ pc' = "exit"
    /\ exit_code' = 1
    /\ UNCHANGED <<args, images, max_width, packer, outputs>>

\* images = collect_images(args.input), for whatever order os.listdir returns
Collect ==
    /\ pc = "start"
    /\ dir_exists
    /\ \E listing \in Listings(dir) : images' = collect_images(listing, dir)
    /\ pc' = "collected"
    /\ UNCHANGED <<args, max_width, packer, outputs, exit_code>>

\* if not images: sys.exit(1)
NoImages ==
    /\ pc = "collected"
    /\ no_images(images)
    /\ pc' = "exit"
    /\ exit_code' = 1
    /\ UNCHANGED <<args, images, max_width, packer, outputs>>

\* max_width is adjusted and pack_images is entered
BeginPack ==
    /\ pc = "collected"
    /\ ~no_images(images)
    /\ max_width' = effective_max_width(width, images, padding)
    /\ LET st == pack_init(padding)
       IN  /\ x' = st.x /\ y' = st.y /\ row_height' = st.row_height
           /\ positions' = st.positions /\ max_row_w' = st.max_row_w
    /\ idx' = 1
    /\ pc' = "pack"
    /\ UNCHANGED <<args, images, outputs, exit_code>>

\* one iteration of: for fname, img in images
PackStep ==
    /\ pc = "pack"
    /\ idx <= Len(images)
    /\ LET st == pack_step([x |-> x, y |-> y, row_height |-> row_height,
                            positions |-> positions, max_row_w |-> max_row_w],
                           images[idx], max_width, padding)
       IN  /\ x' = st.x /\ y' = st.y /\ row_height' = st.row_height
           /\ positions' = st.positions /\ max_row_w' = st.max_row_w
    /\ idx' = idx + 1
    /\ UNCHANGED <<args, pc, images, max_width, outputs, exit_code>>

\* return positions, total_width, total_height
PackReturn ==
    /\ pc = "pack"
    /\ idx > Len(images)
    /\ sheet_w' = total_width(max_row_w, images, padding)
    /\ sheet_h' = total_height(y, row_height, padding)
    /\ pc' = "sheet"
    /\ UNCHANGED <<args, images, max_width, packer, final_w, final_h,
                   out_image, out_json, exit_code>>

\* final_w, final_h = create_sheet(...)
CreateSheet ==
    /\ pc = "sheet"
    /\ LET sheet == create_sheet(images, positions, sheet_w, sheet_h, pot)
       IN  /\ out_image' = sheet
           /\ final_w' = sheet.w
           /\ final_h' = sheet.h
    /\ pc' = "json"
    /\ UNCHANGED <<args, images, max_width, packer, sheet_w, sheet_h, out_json, exit_code>>

\* atlas = build_json(...); json.dump(atlas, f); the run ends with status 0
WriteJson ==
    /\ pc = "json"
    /\ out_json' = main_atlas(images, positions, sheet_w, sheet_h, final_w, final_h)
    /\ pc' = "done"
    /\ exit_code' = 0
    /\ UNCHANGED <<args, images, max_width, packer, sheet_w, sheet_h, final_w, final_h,
                   out_image>>

Next ==
    \/ DirMissing
    \/ Collect
    \/ NoImages
    \/ BeginPack
    \/ PackStep
    \/ PackReturn
    \/ CreateSheet
    \/ WriteJson

Spec == Init /\ [][Next]_vars

(* ------------------------------------------------------------------ *)
(* pack_images called on its own, with any maximum width               *)
(* ------------------------------------------------------------------ *)
\* up to three sprites of any sizes, under three distinct names
SpriteSeqs ==
    UNION { { [k \in 1..n |-> [fname |-> <<s1_png, s2_jpeg, s3_webp>>[k], w |-> ws[k], h |-> hs[k]]] :
                ws \in [1..n -> 1..MaxPackDim], hs \in [1..n -> 1..MaxPackDim] } : n \in 0..3 }

InitPack ==
    /\ dir_exists = TRUE /\ dir = <<>> /\ width = 0 /\ pot = FALSE
    /\ padding \in 0..MaxPad
    /\ pc = "pack"
    /\ images \in SpriteSeqs
    /\ max_width \in 0..MaxReqWidth
    /\ idx = 1
    /\ x = padding /\ y = padding /\ row_height = 0 /\ positions = <<>> /\ max_row_w = 0
    /\ sheet_w = 0 /\ sheet_h = 0 /\ final_w = 0 /\ final_h = 0
    /\ out_image = NoFile /\ out_json = NoFile
    /\ exit_code = -1

NextPack ==
    \/ PackStep
    \/ PackReturn

SpecPack == InitPack /\ [][NextPack]_vars

(* ------------------------------------------------------------------ *)
(* main as one function of the listing and the arguments               *)
(* ------------------------------------------------------------------ *)
\* what a successful run of main leaves behind, had os.listdir returned listing
main_run(listing, d, w, p, po) ==
    LET imgs  == collect_images(listing, d)
        mw    == effective_max_width(w, imgs, p)
        pk    == pack_images(imgs, mw, p)
        sheet == create_sheet(imgs, pk.positions, pk.w, pk.h, po)
    IN  [positions |-> pk.positions,
         image     |-> sheet,
         json      |-> main_atlas(imgs, pk.positions, pk.w, pk.h, sheet.w, sheet.h)]

(* ------------------------------------------------------------------ *)
(* Vocabulary of the properties                                        *)
(* ------------------------------------------------------------------ *)
\* the sprites the loop of pack_images has placed so far
Placed == 1..(IF pc = "pack" THEN idx - 1 ELSE Len(images))
PosX(k) == positions[images[k].fname][1]
PosY(k) == positions[images[k].fname][2]

Packed == pc \in {"sheet", "json", "done"}
Composited == pc \in {"json", "done"}

IsPow2(n) == \E e \in 0..MaxExp : n = 2^e

\* two placed sprites, each extended by the padding to the right and below, are apart
PaddedApart(i, j) ==
    \/ PosX(i) + images[i].w + padding <= PosX(j)
    \/ PosX(j) + images[j].w + padding <= PosX(i)
    \/ PosY(i) + images[i].h + padding <= PosY(j)
    \/ PosY(j) + images[j].h + padding <= PosY(i)

\* the pixels of a placed sprite
Pixels(k) == (PosX(k)..(PosX(k) + images[k].w - 1)) \X (PosY(k)..(PosY(k) + images[k].h - 1))

\* every entry of the directory is an image file that decodes
AllValid == \A f \in DOMAIN dir : has_image_ext(f) /\ dir[f].ok

\* the directory is missing, or holds no image file that decodes
NoUsable == ~dir_exists \/ \A f \in DOMAIN dir : ~(has_image_ext(f) /\ dir[f].ok)

\* the widest collected sprite does not fit the requested width
Widened == images # <<>> /\ max_img_width(images) + 2 * padding > width

InScenario == dir = ScenarioDir /\ width = 256 /\ padding = 2
InWideScenario == dir = WideDir /\ width = 512 /\ padding = 2

(* ------------------------------------------------------------------ *)
(* Properties                                                          *)
(* ------------------------------------------------------------------ *)
\* C1: after a successful run on a directory of image files that all decode,
\* the placement map and the JSON frames each hold as many entries as there
\* are collected sprites, one frame per sprite under its name without extension.
C1_EverySpriteOnce ==
    (pc = "done" /\ AllValid) =>
        /\ Len(images) = Cardinality(DOMAIN dir)
        /\ Cardinality(DOMAIN positions) = Len(images)
        /\ Len(out_json.frames) = Len(images)
        /\ \A k \in 1..Len(images) :
              Cardinality({j \in 1..Len(out_json.frames) :
                  out_json.frames[j].name = splitext_root(images[k].fname)}) = 1

\* C2: for any maximum width and padding >= 0, any two sprites pack_images has
\* placed are apart even when each is extended by the padding, so they share no pixel.
C2_NoOverlap ==
    \A i, j \in Placed :
        i # j => PaddedApart(i, j) /\ Pixels(i) \cap Pixels(j) = {}

C2_Witness ==
    /\ pc = "sheet" /\ Len(images) = 3 /\ padding > 0
    /\ PosY(1) = PosY(2) /\ PosY(3) > PosY(2)
    /\ images[1].h > images[2].h

\* C3: once packed, the sheet is at least as wide as x + width and as high as
\* y + height of every placed sprite, before and after the power-of-two rounding.
C3_SheetCoversSprites ==
    /\ Packed =>
          \A k \in 1..Len(images) :
              /\ sheet_w >= PosX(k) + images[k].w
              /\ sheet_h >= PosY(k) + images[k].h
    /\ Composited =>
          \A k \in 1..Len(images) :
              /\ final_w >= PosX(k) + images[k].w /\ out_image.w = final_w
              /\ final_h >= PosY(k) + images[k].h /\ out_image.h = final_h

C3_Witness ==
    /\ pc = "done" /\ ~pot /\ Len(images) = 2
    /\ PosY(1) < PosY(2)
    /\ images[1].w > images[2].w /\ images[1].h > images[2].h

\* C4: with --pot each final dimension is the smallest power of two that is >= the
\* packer's dimension (a power of two stays as it is); without it, unchanged.
C4_PowerOfTwo ==
    Composited =>
        IF pot
        THEN /\ IsPow2(final_w) /\ final_w >= sheet_w
             /\ \A e \in 0..MaxExp : 2^e >= sheet_w => 2^e >= final_w
             /\ IsPow2(sheet_w) => final_w = sheet_w
             /\ IsPow2(final_h) /\ final_h >= sheet_h
             /\ \A e \in 0..MaxExp : 2^e >= sheet_h => 2^e >= final_h
             /\ IsPow2(sheet_h) => final_h = sheet_h
        ELSE final_w = sheet_w /\ final_h = sheet_h

C4_Witness ==
    /\ pc = "done" /\ pot
    /\ IsPow2(sheet_w) /\ sheet_w > 2 /\ final_w = sheet_w
    /\ ~IsPow2(sheet_h) /\ final_h > sheet_h

\* C5: the size in the JSON metadata is the size of the canvas that was saved.
C5_MetaSizeIsCanvasSize ==
    out_json.written =>
        /\ out_image.written
        /\ out_json.meta.size.w = out_image.w
        /\ out_json.meta.size.h = out_image.h

C5_Witness ==
    /\ pc = "done" /\ pot
    /\ out_image.w # sheet_w /\ out_image.h # sheet_h

\* C6 as stated: 64x64, 128x64, 64x128 with width 256 and padding 2 are placed at
\* (2,2), (68,2), (2,68) and the sheet is 256 wide and 198 high.
C6_ScenarioAsStated ==
    (InScenario /\ pc = "done") =>
        /\ positions = (s1_png :> <<2, 2>>) @@ (s2_jpeg :> <<68, 2>>) @@ (s3_webp :> <<2, 68>>)
        /\ \/ sheet_w = 256 /\ sheet_h = 198
           \/ final_w = 256 /\ final_h = 198

\* C6 amended: the same placements, and the sheet is 198 wide (the row extent
\* 68 + 128 + 2) and 198 high; without --pot that is the final size.
C6_Scenario ==
    (InScenario /\ Packed) =>
        /\ positions = (s1_png :> <<2, 2>>) @@ (s2_jpeg :> <<68, 2>>) @@ (s3_webp :> <<2, 68>>)
        /\ max_width = 256
        /\ sheet_w = 198 /\ sheet_h = 198
        /\ (pc = "done" /\ ~pot) => final_w = 198 /\ final_h = 198

C6_Witness == InScenario /\ pc = "done" /\ ~pot /\ Len(images) = 3

\* C7: when the widest sprite does not fit --width, the maximum width becomes
\* widest + 2*padding, every sprite is placed with x + w + padding within it, and the
\* packer's sheet width is widest + 2*padding (3000, 512, 2 gives 3004 and 3004).
C7_WidenedWidth ==
    /\ (Widened /\ pc \in {"pack", "sheet", "json", "done"}) =>
          /\ max_width = max_img_width(images) + 2 * padding
          /\ \A k \in Placed : PosX(k) + images[k].w + padding <= max_width
          /\ Packed => sheet_w = max_img_width(images) + 2 * padding
    /\ (InWideScenario /\ Packed) => max_width = 3004 /\ sheet_w = 3004

C7_Witness ==
    /\ pc = "done" /\ Widened /\ Len(images) = 2
    /\ images[1].w < images[2].w
    /\ width > images[1].w + 2 * padding

\* C8: when the directory is missing or holds no usable image, main ends with status 1
\* without reaching the packer, the compositor or the JSON writer, and writes no file.
C8_NoInputNoOutput ==
    /\ NoUsable =>
          /\ pc \in {"start", "collected", "exit"}
          /\ pc = "collected" => images = <<>>
    /\ pc = "exit" =>
          /\ NoUsable
          /\ exit_code = 1
          /\ out_image = NoFile /\ out_json = NoFile
          /\ idx = 0 /\ positions = <<>> /\ sheet_w = 0 /\ final_w = 0

C8_Witness ==
    /\ pc = "exit" /\ dir_exists
    /\ \E f \in DOMAIN dir : has_image_ext(f)
    /\ \E f \in DOMAIN dir : ~has_image_ext(f)

\* C9: what a run leaves behind (placements, sheet, JSON) is the same for every
\* order in which the directory listing could have returned the files.
C9_ListingOrderIrrelevant ==
    pc = "done" =>
        \A listing \in Listings(dir) :
            main_run(listing, dir, width, padding, pot)
                = [positions |-> positions, image |-> out_image, json |-> out_json]

C9_Witness ==
    /\ pc = "done" /\ Len(images) = 2 /\ Cardinality(DOMAIN dir) = 3
    /\ images[1].w # images[2].w

\* C10: as main calls pack_images, the sheet is no wider than the maximum width, the
\* first sprite sits at (padding, padding), and a wrap only leaves a row that holds a sprite.
C10_PackWithinWidth ==
    /\ Packed => sheet_w <= max_width
    /\ (pc \in {"pack", "sheet", "json", "done"} /\ 1 \in Placed) =>
          PosX(1) = padding /\ PosY(1) = padding
    /\ (pc = "pack" /\ idx <= Len(images)
            /\ x + images[idx].w + padding > max_width) =>
          idx > 1 /\ x > padding /\ row_height > 0

C10_Witness ==
    /\ pc = "pack" /\ idx = 2 /\ Len(images) = 2
    /\ x + images[idx].w + padding > max_width
    /\ max_width = width

====
